---- MODULE Spec2Model ----
(***************************************************************************)
(* mailbox-mcp storage engine (src/src/db.rs): the SQLite-backed message   *)
(* queue and context store behind one Arc<Mutex<Connection>>.              *)
(*                                                                         *)
(* Strings are tuples of one-character strings, so that trim, parse and    *)
(* to_string are computed and not assumed.  A payload (a message content   *)
(* or a context value), of which the engine reads nothing but the byte     *)
(* length, is a sequence of runs <<byte, count>>.  Option<T> is <<>>       *)
(* (None) or <<x>> (Some(x)); SQL NULL is None.                            *)
(***************************************************************************)
EXTENDS Integers, Sequences, FiniteSets

\* ------------------------------------------------------------------ bounds
MaxSends == 2
MaxClock == 2
NumCallers == 2
MaxCtxRows == 2
MaxQueued == 3

\* ------------------------------------------------------- program constants
MAX_MESSAGE_LIMIT == 500
MAX_MESSAGE_SIZE == 1048576
MAX_CONTEXT_VALUE_SIZE == 65536
DEFAULT_LIMIT == 100

\* ----------------------------------------------------------------- strings
None == <<>>
Some(x) == <<x>>
IsSome(o) == o # <<>>
Unwrap(o) == o[1]

Whitespace == {" "}

RECURSIVE TrimStart(_)
TrimStart(s) ==
    IF s = <<>> THEN s
    ELSE IF Head(s) \in Whitespace THEN TrimStart(Tail(s)) ELSE s

RECURSIVE TrimEnd(_)
TrimEnd(s) ==
    IF s = <<>> THEN s
    ELSE IF s[Len(s)] \in Whitespace THEN TrimEnd(SubSeq(s, 1, Len(s) - 1)) ELSE s

\* faulty variant: the argument is used as given
TrimNothing(s) == s

\* str::trim
Trim(s) == TrimEnd(TrimStart(s))

DigitChars == <<"0", "1", "2", "3", "4", "5", "6", "7", "8", "9">>

DigitValue(ch) == (CHOOSE i \in 1..10 : DigitChars[i] = ch) - 1

IsDigit(ch) == \E i \in 1..10 : DigitChars[i] = ch

\* i64::to_string, for the non-negative ids SQLite assigns
RECURSIVE IdToString(_)
IdToString(n) ==
    IF n < 10 THEN <<DigitChars[n + 1]>>
    ELSE IdToString(n \div 10) \o <<DigitChars[(n % 10) + 1]>>

RECURSIVE DigitsValue(_)
DigitsValue(s) ==
    IF s = <<>> THEN 0
    ELSE 10 * DigitsValue(SubSeq(s, 1, Len(s) - 1)) + DigitValue(s[Len(s)])

AllDigits(s) == s # <<>> /\ \A i \in 1..Len(s) : IsDigit(s[i])

\* i64::MAX and the magnitude of i64::MIN, in decimal
I64MaxDigits == <<"9", "2", "2", "3", "3", "7", "2", "0", "3", "6", "8", "5", "4", "7", "7",
                  "5", "8", "0", "7">>
I64MinDigits == <<"9", "2", "2", "3", "3", "7", "2", "0", "3", "6", "8", "5", "4", "7", "7",
                  "5", "8", "0", "8">>

RECURSIVE StripZeros(_)
StripZeros(s) == IF Len(s) > 1 /\ Head(s) = "0" THEN StripZeros(Tail(s)) ELSE s

\* the decimal numeral s is at most the decimal numeral t
DigitsLeq(s, t) ==
    LET a == StripZeros(s)
        b == StripZeros(t)
    IN  Len(a) < Len(b) \/ (Len(a) = Len(b) /\ \A i \in 1..Len(a) :
                                (\A j \in 1..(i - 1) : a[j] = b[j]) =>
                                    DigitValue(a[i]) <= DigitValue(b[i]))

RECURSIVE LeadingDigits(_)
LeadingDigits(s) ==
    IF s = <<>> \/ ~IsDigit(Head(s)) THEN <<>> ELSE <<Head(s)>> \o LeadingDigits(Tail(s))

\* faulty variant: the leading digits are parsed and what follows is ignored
ParseLeadingDigits(s) ==
    LET d == LeadingDigits(s)
    IN  IF d = <<>> \/ ~DigitsLeq(d, I64MaxDigits) THEN None ELSE Some(DigitsValue(d))

\* str::parse::<i64>: an optional sign, then one or more decimal digits, of a
\* value within the range of i64; anything else is a ParseIntError
ParseI64(s) ==
    IF AllDigits(s)
    THEN IF DigitsLeq(s, I64MaxDigits) THEN Some(DigitsValue(s)) ELSE None
    ELSE IF s # <<>> /\ Head(s) = "+" /\ AllDigits(Tail(s))
    THEN IF DigitsLeq(Tail(s), I64MaxDigits) THEN Some(DigitsValue(Tail(s))) ELSE None
    ELSE IF s # <<>> /\ Head(s) = "-" /\ AllDigits(Tail(s))
    THEN IF DigitsLeq(Tail(s), I64MinDigits) THEN Some(0 - DigitsValue(Tail(s))) ELSE None
    ELSE None

\* SQLite comparison "id = +?" of the INTEGER column with a TEXT parameter:
\* NUMERIC affinity is applied to the text, which then compares as an integer
\* when it is a well-formed integer literal and never equals an integer otherwise
TextEqualsInteger(text, n) ==
    LET t == Trim(text) IN IsSome(ParseI64(t)) /\ Unwrap(ParseI64(t)) = n

\* a payload of n equal bytes
Repeat(ch, n) == <<<<ch, n>>>>

\* str::len of a payload: its length in bytes
RECURSIVE ByteLen(_)
ByteLen(s) == IF s = <<>> THEN 0 ELSE Head(s)[2] + ByteLen(Tail(s))

Min(a, b) == IF a <= b THEN a ELSE b

Max(a, b) == IF a >= b THEN a ELSE b

Range(s) == {s[i] : i \in 1..Len(s)}

\* byte order of the characters used (SQLite BINARY collation, Rust str order)
Alphabet == <<" ", "+", "-", "0", "1", "2", "3", "4", "5", "6", "7", "8", "9",
              "a", "b", "h", "j", "k", "p", "q", "v", "w", "x">>

CharCode(ch) == CHOOSE i \in 1..Len(Alphabet) : Alphabet[i] = ch

RECURSIVE StrLess(_, _)
StrLess(s, t) ==
    IF t = <<>> THEN FALSE
    ELSE IF s = <<>> THEN TRUE
    ELSE IF Head(s) = Head(t) THEN StrLess(Tail(s), Tail(t))
    ELSE CharCode(Head(s)) < CharCode(Head(t))

StrLeq(s, t) == s = t \/ StrLess(s, t)

\* ---------------------------------------------------------------- calls
\* a call is a record of the operation's name, op, and its arguments; this
\* one stands for no call
NoCall == [op |-> "none"]

\* ------------------------------------------------------------ engine state
VARIABLES
    lastId,     \* sqlite_sequence: the largest message id ever assigned
    scan        \* the order in which this database's engine visits the rows of
                \* equal sort key: "asc" or "desc" by rowid; fixed for its life

\* ------------------------------------------------------- messages relation
\* A row of table messages.  reference_id is an Option.
MessageRow(id, project_id, to_agent, from_agent, reference_id, content, created_at) ==
    [id |-> id, project_id |-> project_id, to_agent |-> to_agent,
     from_agent |-> from_agent, reference_id |-> reference_id,
     content |-> content, created_at |-> created_at]

\* struct Message, as query_messages builds it from a row
Message(row) ==
    [id |-> IdToString(row.id), from_agent |-> row.from_agent,
     reference_id |-> row.reference_id, content |-> row.content,
     created_at |-> row.created_at]

\* INSERT INTO messages (...) VALUES (...): id is AUTOINCREMENT (one more than
\* the largest id ever assigned, kept in sqlite_sequence), created_at is the
\* column default, the clock at one-second resolution
\* faulty variant: INTEGER PRIMARY KEY without AUTOINCREMENT, one more than the largest
\* id present
NextIdOfPresent(msgs, largest) ==
    IF msgs = {} THEN 1 ELSE (CHOOSE i \in {m.id : m \in msgs} : \A m \in msgs : m.id <= i) + 1

NextId(msgs, largest) == largest + 1

\* faulty variant: INSERT OR REPLACE keyed by the queue, the new message taking
\* the place of the queue's pending ones
InsertMessageReplacing(msgs, largest, t, project_id, to_agent, from_agent, reference_id, content) ==
    {m \in msgs : ~(m.project_id = project_id /\ m.to_agent = to_agent)}
        \cup {MessageRow(NextId(msgs, largest), project_id, to_agent, from_agent,
                         reference_id, content, t)}

InsertMessage(msgs, largest, t, project_id, to_agent, from_agent, reference_id, content) ==
    msgs \cup {MessageRow(NextId(msgs, largest), project_id, to_agent, from_agent,
                          reference_id, content, t)}

\* faulty variant: WHERE to_agent = ?2, the project not compared
QueueRowsAnyProject(msgs, project_id, agent_id) == {m \in msgs : m.to_agent = agent_id}

\* WHERE project_id = ?1 AND to_agent = ?2
QueueRows(msgs, project_id, agent_id) ==
    {m \in msgs : m.project_id = project_id /\ m.to_agent = agent_id}

\* the only row of a one-row set
TheRow(rows) == CHOOSE m \in rows : TRUE

\* the rows with lo <= id <= hi in ascending rowid, the order of a forward scan
RECURSIVE ByRowid(_, _, _)
ByRowid(rows, lo, hi) ==
    IF rows = {} THEN <<>>
    ELSE IF lo >= hi THEN <<TheRow(rows)>>
    ELSE LET mid == (lo + hi) \div 2
         IN ByRowid({m \in rows : m.id <= mid}, lo, mid)
            \o ByRowid({m \in rows : m.id > mid}, mid + 1, hi)

\* a power of two that no rowid of the rows exceeds
RECURSIVE RowidCover(_, _)
RowidCover(rows, h) ==
    IF \A m \in rows : m.id <= h THEN h ELSE RowidCover(rows, 2 * h)

Reverse(s) == [i \in 1..Len(s) |-> s[Len(s) + 1 - i]]

\* the rows in the order the engine visits rows of equal sort key: ascending
\* rowid on a forward scan, descending rowid on a reverse scan
ScanOrder(rows) ==
    LET asc == ByRowid(rows, 0, RowidCover(rows, 1)) IN IF scan = "asc" THEN asc ELSE Reverse(asc)

\* ORDER BY created_at ASC: the rows by ascending created_at; the statement
\* names no second sort key, so rows of equal created_at come in scan order
RECURSIVE OrderByCreatedAt(_)
OrderByCreatedAt(rows) ==
    IF rows = {} THEN <<>>
    ELSE LET t == CHOOSE u \in {m.created_at : m \in rows} :
                      \A m \in rows : u <= m.created_at
             first == {m \in rows : m.created_at = t}
         IN ScanOrder(first) \o OrderByCreatedAt(rows \ first)

\* ORDER BY created_at ASC LIMIT ?3 over a set of rows: the results the
\* statement can yield, one for the scan order of this database
OrderByCreatedAtLimit(rows, limit) ==
    LET s == OrderByCreatedAt(rows) IN {SubSeq(s, 1, Min(limit, Len(s)))}

\* Database::query_messages: the possible results, as sequences of Message
QueryMessages(msgs, project_id, agent_id, limit) ==
    {[i \in 1..Len(s) |-> Message(s[i])] :
        s \in OrderByCreatedAtLimit(QueueRows(msgs, project_id, agent_id), limit)}

\* the integers that the text parameters of "id IN (?, ?, ...)" compare equal
\* to (see TextEqualsInteger)
BoundIds(ids) ==
    {Unwrap(ParseI64(Trim(ids[i]))) : i \in {j \in 1..Len(ids) : IsSome(ParseI64(Trim(ids[j])))}}

\* DELETE FROM messages WHERE id IN (?, ?, ...), the ids bound as text
DeleteIdIn(msgs, ids) ==
    LET bound == BoundIds(ids) IN {m \in msgs : m.id \notin bound}

\* faulty variant: DELETE FROM messages WHERE id <= ?1
DeleteIdUpTo(msgs, id) == {m \in msgs : m.id > id}

\* DELETE FROM messages WHERE id = ?1, the id bound as an integer
DeleteId(msgs, id) == {m \in msgs : m.id # id}

\* faulty variant: the limit is not capped
EffectiveLimitUncapped(limit) == IF IsSome(limit) THEN Unwrap(limit) ELSE DEFAULT_LIMIT

\* limit.unwrap_or(100).min(MAX_MESSAGE_LIMIT)
EffectiveLimit(limit) ==
    Min(IF IsSome(limit) THEN Unwrap(limit) ELSE DEFAULT_LIMIT, MAX_MESSAGE_LIMIT)

\* -------------------------------------------------------- context relation
ContextRow(project_id, key, value) ==
    [project_id |-> project_id, key |-> key, value |-> value]

\* ON CONFLICT(project_id, key): the PRIMARY KEY index holds a conflicting row
\* only when the project ids are equal non-NULL values; NULLs are distinct
\* from each other in a UNIQUE index
Conflicts(row, project_id, key) ==
    IsSome(project_id) /\ row.project_id = project_id /\ row.key = key

\* INSERT INTO context ... ON CONFLICT(project_id, key) DO UPDATE SET value = ?3
Upsert(ctx, project_id, key, value) ==
    IF \E i \in 1..Len(ctx) : Conflicts(ctx[i], project_id, key)
    THEN [i \in 1..Len(ctx) |->
            IF Conflicts(ctx[i], project_id, key)
            THEN ContextRow(project_id, key, value) ELSE ctx[i]]
    ELSE Append(ctx, ContextRow(project_id, key, value))

\* faulty variant: the scope is not compared
MatchesKeyAnyScope(row, project_id, key) == row.key = key

\* WHERE project_id IS ?1 AND key = ?2 (IS is true of NULL and NULL)
MatchesKey(row, project_id, key) == row.project_id = project_id /\ row.key = key

\* SELECT value FROM context WHERE project_id IS ?1 AND key = ?2, query_row:
\* the value of the first row the statement yields, any matching row since the
\* statement has no ORDER BY; None when QueryReturnedNoRows
SelectValue(ctx, project_id, key) ==
    IF \E i \in 1..Len(ctx) : MatchesKey(ctx[i], project_id, key)
    THEN {Some(ctx[i].value) : i \in {j \in 1..Len(ctx) : MatchesKey(ctx[j], project_id, key)}}
    ELSE {None}

RECURSIVE Filter(_, _, _)
Filter(ctx, project_id, key) ==
    IF ctx = <<>> THEN <<>>
    ELSE IF MatchesKey(Head(ctx), project_id, key)
         THEN Filter(Tail(ctx), project_id, key)
         ELSE <<Head(ctx)>> \o Filter(Tail(ctx), project_id, key)

\* faulty variant: only the first matching row is deleted
RECURSIVE DeleteFirstMatch(_, _, _)
DeleteFirstMatch(ctx, project_id, key) ==
    IF ctx = <<>> THEN <<>>
    ELSE IF MatchesKey(Head(ctx), project_id, key) THEN Tail(ctx)
    ELSE <<Head(ctx)>> \o DeleteFirstMatch(Tail(ctx), project_id, key)

\* DELETE FROM context WHERE project_id IS ?1 AND key = ?2
DeleteContext(ctx, project_id, key) == Filter(ctx, project_id, key)

RECURSIVE Insert(_, _)
Insert(k, sorted) ==
    IF sorted = <<>> THEN <<k>>
    ELSE IF StrLeq(k, Head(sorted)) THEN <<k>> \o sorted
    ELSE <<Head(sorted)>> \o Insert(k, Tail(sorted))

RECURSIVE SortKeys(_)
SortKeys(keys) ==
    IF keys = <<>> THEN <<>> ELSE Insert(Head(keys), SortKeys(Tail(keys)))

RECURSIVE ScopeKeys(_, _)
ScopeKeys(ctx, project_id) ==
    IF ctx = <<>> THEN <<>>
    ELSE IF Head(ctx).project_id = project_id
         THEN <<Head(ctx).key>> \o ScopeKeys(Tail(ctx), project_id)
         ELSE ScopeKeys(Tail(ctx), project_id)

\* SELECT key FROM context WHERE project_id IS ?1 ORDER BY key
SelectKeys(ctx, project_id) == SortKeys(ScopeKeys(ctx, project_id))

\* ------------------------------------------------------------------- state
VARIABLES
    messages,   \* table messages: a set of rows
    now,        \* the clock strftime('now') reads, in seconds
    context,    \* table context: its rows in rowid order
    lock,       \* the callers holding a MutexGuard of Mutex<Connection>
    pc,         \* per caller: idle, lock, cs, del, unlock, panicked
    call,       \* per caller: the operation in progress and its arguments
    sel,        \* per caller: `messages`, the local of receive_messages' closure
    before,     \* per caller: the tables as they were when its closure began
    res,        \* per caller: the DbResult the call is about to return
    received,   \* per message id: how many receive_messages calls returned it
    deleted,    \* per message id: how many delete_message calls returned true for it
    sent,       \* per message id: how many send_message calls returned it
    last        \* the last completed call and its result (sequential use)

vars == <<messages, lastId, scan, now, context, lock, pc, call, sel, before, res,
          received, deleted, sent, last>>

store == <<messages, lastId, context>>

Callers == 1..NumCallers
NoSnapshot == [messages |-> {}, context |-> <<>>]
NoRes == [set |-> FALSE]
Ok(v) == [set |-> TRUE, ok |-> TRUE, val |-> v]
Err(e) == [set |-> TRUE, ok |-> FALSE, err |-> e]
\* DbError::ContentTooLarge { size, limit }
ContentTooLarge(size, limit) ==
    [limit |-> limit, set |-> TRUE, ok |-> FALSE, err |-> "ContentTooLarge", size |-> size]
IsOk(r) == r.set /\ r.ok
IsErr(r) == r.set /\ ~r.ok

\* ------------------------------------------------------------ input values
P == <<"p">>
Q == <<"q">>
A == <<"a">>
B == <<"b">>
X == <<"x">>
H == Repeat("h", 1)
K == <<"k">>
V == Repeat("v", 1)
W == Repeat("w", 1)

SendCall(project_id, to_agent, from_agent, content, reference_id) ==
    [op |-> "send_message", project_id |-> project_id, to_agent |-> to_agent,
     from_agent |-> from_agent, reference_id |-> reference_id, content |-> content]
ReceiveCall(project_id, agent_id, limit) ==
    [op |-> "receive_messages", project_id |-> project_id, agent_id |-> agent_id, limit |-> limit]
PeekCall(project_id, agent_id, limit) ==
    [op |-> "peek_messages", project_id |-> project_id, agent_id |-> agent_id, limit |-> limit]
DeleteMessageCall(message_id) == [op |-> "delete_message", message_id |-> message_id]
ContextSetCall(project_id, key, value) ==
    [op |-> "context_set", project_id |-> project_id, key |-> key, value |-> value]
ContextGetCall(project_id, key) ==
    [op |-> "context_get", project_id |-> project_id, key |-> key]
ContextDeleteCall(project_id, key) ==
    [op |-> "context_delete", project_id |-> project_id, key |-> key]
ContextListCall(project_id) == [op |-> "context_list", project_id |-> project_id]

\* the requests callers of the shared handle issue concurrently, by operation
ConcurrentSends == {SendCall(P, a, X, H, None) : a \in {A, B}}
ConcurrentReceives == {ReceiveCall(P, A, l) : l \in {None, Some(1)}}
ConcurrentPeeks == {PeekCall(P, A, None)}
ConcurrentDeletes == {DeleteMessageCall(IdToString(i)) : i \in 2..2}
ConcurrentContextSets == {ContextSetCall(Some(P), K, V)}
ConcurrentContextDeletes == {ContextDeleteCall(Some(P), K)}

TypeOK ==
    /\ lastId \in 0..Max(MaxSends, MaxQueued)
    /\ now \in 1..MaxClock
    /\ lock \subseteq Callers
    /\ pc \in [Callers -> {"idle", "lock", "cs", "del", "unlock", "panicked"}]
    /\ \A m \in messages : m.id \in 1..lastId /\ m.created_at \in 1..now
    /\ Len(context) <= MaxCtxRows

Init ==
    /\ messages = {}
    /\ lastId = 0
    /\ scan \in {"asc", "desc"}
    /\ now = 1
    /\ context = <<>>
    /\ lock = {}
    /\ pc = [c \in Callers |-> "idle"]
    /\ call = [c \in Callers |-> NoCall]
    /\ sel = [c \in Callers |-> <<>>]
    /\ before = [c \in Callers |-> NoSnapshot]
    /\ res = [c \in Callers |-> NoRes]
    /\ received = [i \in 1..MaxSends |-> 0]
    /\ deleted = [i \in 1..MaxSends |-> 0]
    /\ sent = [i \in 1..MaxSends |-> 0]
    /\ last = [call |-> NoCall, res |-> NoRes]

\* ------------------------------------------------- validation before locking
\* faulty variant: a payload of exactly the limit is refused
TooLargeAtLimit(size, limit) == size >= limit

\* faulty variant: a payload one byte over the limit is accepted
TooLargeBeyond(size, limit) == size > limit + 1

\* value.len() > MAX_CONTEXT_VALUE_SIZE, content.len() > MAX_MESSAGE_SIZE
TooLarge(size, limit) == size > limit

\* faulty variant: from_agent is not checked
ValidateWithoutFromAgent(rq) ==
    CASE rq.op = "send_message" ->
            IF Trim(rq.project_id) = <<>> THEN Some(Err("EmptyField:project_id"))
            ELSE IF Trim(rq.to_agent) = <<>> THEN Some(Err("EmptyField:to_agent"))
            ELSE IF TooLarge(ByteLen(rq.content), MAX_MESSAGE_SIZE)
                 THEN Some(ContentTooLarge(ByteLen(rq.content), MAX_MESSAGE_SIZE))
            ELSE None
      [] OTHER -> None

\* the early returns of each operation, before with_conn: Some(the error
\* returned) or None
Validate(rq) ==
    CASE rq.op = "context_set" ->
            IF Trim(rq.key) = <<>> THEN Some(Err("EmptyField:key"))
            ELSE IF TooLarge(ByteLen(rq.value), MAX_CONTEXT_VALUE_SIZE)
                 THEN Some(ContentTooLarge(ByteLen(rq.value), MAX_CONTEXT_VALUE_SIZE))
            ELSE None
      [] rq.op = "send_message" ->
            IF Trim(rq.project_id) = <<>> THEN Some(Err("EmptyField:project_id"))
            ELSE IF Trim(rq.to_agent) = <<>> THEN Some(Err("EmptyField:to_agent"))
            ELSE IF Trim(rq.from_agent) = <<>> THEN Some(Err("EmptyField:from_agent"))
            ELSE IF TooLarge(ByteLen(rq.content), MAX_MESSAGE_SIZE)
                 THEN Some(ContentTooLarge(ByteLen(rq.content), MAX_MESSAGE_SIZE))
            ELSE None
      [] rq.op = "delete_message" ->
            IF ParseI64(rq.message_id) = None THEN Some(Err("InvalidMessageId")) ELSE None
      [] OTHER -> None

\* ----------------------------------------------------- concurrent callers
\* sends and context inserts already admitted but not yet executed
PendingInserts(op) == Cardinality({c \in Callers : pc[c] \in {"lock", "cs"} /\ call[c].op = op})

\* the model's bounds on the tables, applied when a call is admitted
Admissible(rq) ==
    /\ rq.op = "send_message" => lastId + PendingInserts("send_message") < MaxSends
    /\ rq.op = "context_set" => Len(context) + PendingInserts("context_set") < MaxCtxRows

\* a caller invokes an operation whose arguments pass validation: the code up
\* to with_conn
Invoke(c, rq) ==
    /\ pc[c] = "idle"
    /\ Admissible(rq)
    /\ Validate(rq) = None
    /\ call' = [call EXCEPT ![c] = rq]
    /\ pc' = [pc EXCEPT ![c] = "lock"]
    /\ UNCHANGED <<messages, lastId, now, scan, context, lock, sel, before, res, received, deleted, sent, last>>

\* faulty variant: no mutual exclusion
LockAlwaysAvailable == TRUE

\* Mutex::lock succeeds only while no caller holds the guard
LockAvailable == lock = {}

\* the Mutex is poisoned: a thread panicked while it held the guard, or after
\* it found the Mutex poisoned
Poisoned == \E c \in Callers : pc[c] = "panicked"

\* with_conn: self.conn.lock().expect("Database mutex poisoned ..."): the
\* guard, or a panic of the calling thread when the Mutex is poisoned
Acquire(c) ==
    /\ pc[c] = "lock"
    /\ LockAvailable
    /\ IF Poisoned
       THEN /\ pc' = [pc EXCEPT ![c] = "panicked"]
            /\ UNCHANGED <<lock, before>>
       ELSE /\ lock' = lock \cup {c}
            /\ pc' = [pc EXCEPT ![c] = "cs"]
            /\ before' = [before EXCEPT ![c] = [messages |-> messages, context |-> context]]
    /\ UNCHANGED <<messages, lastId, now, scan, context, call, sel, res, received, deleted, sent, last>>

\* the closure ends with this result; the guard is still held
Finish(c, r) ==
    /\ res' = [res EXCEPT ![c] = r]
    /\ pc' = [pc EXCEPT ![c] = "unlock"]

InCs(c, op) == pc[c] = "cs" /\ call[c].op = op

\* faulty variant: one DELETE per message, failing after the first
FailedDeleteAfterFirst(msgs, selected) == DeleteIdIn(msgs, <<selected[1].id>>)

\* the table after the DELETE of receive_messages failed: it is one statement,
\* which SQLite undoes as a whole
FailedDelete(msgs, selected) == msgs

\* faulty variant: the closure unwraps the statement's result, so a failing
\* statement panics the thread; the guard is dropped while unwinding, which
\* poisons the Mutex
FaultPanics(c) ==
    /\ pc[c] \in {"cs", "del"}
    /\ messages' = IF pc[c] = "del" THEN FailedDelete(messages, sel[c]) ELSE messages
    /\ pc' = [pc EXCEPT ![c] = "panicked"]
    /\ lock' = lock \ {c}
    /\ sel' = [sel EXCEPT ![c] = <<>>]
    /\ UNCHANGED <<lastId, now, scan, context, call, before, res, received, deleted, sent, last>>

\* a statement of the closure fails (the ? after prepare, query_map, bind or
\* execute): the closure returns the error, and `messages` is dropped
Fault(c) ==
    /\ pc[c] \in {"cs", "del"}
    /\ messages' = IF pc[c] = "del" THEN FailedDelete(messages, sel[c]) ELSE messages
    /\ Finish(c, Err(IF pc[c] = "del" THEN "Sqlite:delete" ELSE "Sqlite"))
    /\ sel' = [sel EXCEPT ![c] = <<>>]
    /\ UNCHANGED <<lastId, now, scan, context, lock, call, before, received, deleted, sent, last>>

\* send_message's closure: INSERT, then last_insert_rowid().to_string()
SendInsert(c) ==
    /\ InCs(c, "send_message")
    /\ messages' = InsertMessage(messages, lastId, now, call[c].project_id, call[c].to_agent,
                                 call[c].from_agent, call[c].reference_id, call[c].content)
    /\ lastId' = Max(lastId, NextId(messages, lastId))
    /\ Finish(c, Ok(IdToString(NextId(messages, lastId))))
    /\ UNCHANGED <<now, scan, context, lock, call, sel, before, received, deleted, sent, last>>

\* peek_messages' closure: query_messages
PeekSelect(c) ==
    /\ InCs(c, "peek_messages")
    /\ \E r \in QueryMessages(messages, call[c].project_id, call[c].agent_id,
                              EffectiveLimit(call[c].limit)) :
          Finish(c, Ok(r))
    /\ UNCHANGED <<messages, lastId, now, scan, context, lock, call, sel, before, received, deleted, sent, last>>

\* receive_messages' closure, first statement: query_messages into `messages`;
\* an empty result skips the DELETE and is returned at once
ReceiveSelect(c) ==
    /\ InCs(c, "receive_messages")
    /\ \E r \in QueryMessages(messages, call[c].project_id, call[c].agent_id,
                              EffectiveLimit(call[c].limit)) :
          IF r = <<>>
          THEN Finish(c, Ok(r)) /\ sel' = sel
          ELSE /\ sel' = [sel EXCEPT ![c] = r]
               /\ pc' = [pc EXCEPT ![c] = "del"]
               /\ res' = res
    /\ UNCHANGED <<messages, lastId, now, scan, context, lock, call, before, received, deleted, sent, last>>

\* the ids receive_messages binds to its DELETE: messages.iter().map(|m| m.id.clone())
SelectedIds(msgs) == [i \in 1..Len(msgs) |-> msgs[i].id]

\* faulty variant: the DELETE is left out
AfterReceiveNoDelete(msgs, selected) == msgs

\* faulty variant: DELETE every row up to the newest id selected
AfterReceiveDeleteUpTo(msgs, selected) ==
    {m \in msgs : \A i \in 1..Len(selected) : m.id > Unwrap(ParseI64(selected[i].id))}

\* what the DELETE of receive_messages leaves in the table
AfterReceiveDelete(msgs, selected) == DeleteIdIn(msgs, SelectedIds(selected))

\* receive_messages' closure, second statement: DELETE ... WHERE id IN (...),
\* then Ok(messages)
ReceiveDelete(c) ==
    /\ pc[c] = "del"
    /\ messages' = AfterReceiveDelete(messages, sel[c])
    /\ Finish(c, Ok(sel[c]))
    /\ sel' = [sel EXCEPT ![c] = <<>>]
    /\ UNCHANGED <<lastId, now, scan, context, lock, call, before, received, deleted, sent, last>>

\* delete_message's closure: DELETE ... WHERE id = ?1, then rows > 0
DeleteMessageExec(c) ==
    /\ InCs(c, "delete_message")
    /\ LET id == Unwrap(ParseI64(call[c].message_id)) IN
          /\ messages' = DeleteId(messages, id)
          /\ Finish(c, Ok(\E m \in messages : m.id = id))
    /\ UNCHANGED <<lastId, now, scan, context, lock, call, sel, before, received, deleted, sent, last>>

\* context_set's closure: the upsert, under the trimmed key
ContextSetExec(c) ==
    /\ InCs(c, "context_set")
    /\ context' = Upsert(context, call[c].project_id, Trim(call[c].key), call[c].value)
    /\ Finish(c, Ok("unit"))
    /\ UNCHANGED <<messages, lastId, now, scan, lock, call, sel, before, received, deleted, sent, last>>

\* context_delete's closure
ContextDeleteExec(c) ==
    /\ InCs(c, "context_delete")
    /\ context' = DeleteContext(context, call[c].project_id, call[c].key)
    /\ Finish(c, Ok(\E i \in 1..Len(context) :
                        MatchesKey(context[i], call[c].project_id, call[c].key)))
    /\ UNCHANGED <<messages, lastId, now, scan, lock, call, sel, before, received, deleted, sent, last>>

\* ids of the messages of a result, as integers
ResultIds(msgs) == {Unwrap(ParseI64(msgs[i].id)) : i \in 1..Len(msgs)}

Count(f, ids) == [i \in DOMAIN f |-> IF i \in ids THEN f[i] + 1 ELSE f[i]]

\* faulty variant: the guard is kept when the closure returned an error
ReleaseOnlyOnOk(c) ==
    /\ pc[c] = "unlock"
    /\ lock' = IF IsErr(res[c]) THEN lock ELSE lock \ {c}
    /\ before' = [before EXCEPT ![c] = NoSnapshot]
    /\ pc' = [pc EXCEPT ![c] = "idle"]
    /\ call' = [call EXCEPT ![c] = NoCall]
    /\ res' = [res EXCEPT ![c] = NoRes]
    /\ received' = IF call[c].op = "receive_messages" /\ IsOk(res[c])
                   THEN Count(received, ResultIds(res[c].val)) ELSE received
    /\ deleted' = IF call[c].op = "delete_message" /\ IsOk(res[c]) /\ res[c].val
                  THEN Count(deleted, {Unwrap(ParseI64(call[c].message_id))}) ELSE deleted
    /\ sent' = IF call[c].op = "send_message" /\ IsOk(res[c])
               THEN Count(sent, {Unwrap(ParseI64(res[c].val))}) ELSE sent
    /\ UNCHANGED <<messages, lastId, now, scan, context, sel, last>>

\* with_conn returns: the MutexGuard is dropped and the caller gets the result;
\* received, deleted and sent record what callers were given
Release(c) ==
    /\ pc[c] = "unlock"
    /\ lock' = lock \ {c}
    /\ before' = [before EXCEPT ![c] = NoSnapshot]
    /\ pc' = [pc EXCEPT ![c] = "idle"]
    /\ call' = [call EXCEPT ![c] = NoCall]
    /\ res' = [res EXCEPT ![c] = NoRes]
    /\ received' = IF call[c].op = "receive_messages" /\ IsOk(res[c])
                   THEN Count(received, ResultIds(res[c].val)) ELSE received
    /\ deleted' = IF call[c].op = "delete_message" /\ IsOk(res[c]) /\ res[c].val
                  THEN Count(deleted, {Unwrap(ParseI64(call[c].message_id))}) ELSE deleted
    /\ sent' = IF call[c].op = "send_message" /\ IsOk(res[c])
               THEN Count(sent, {Unwrap(ParseI64(res[c].val))}) ELSE sent
    /\ UNCHANGED <<messages, lastId, now, scan, context, sel, last>>

\* the wall clock advances
Tick ==
    /\ now < MaxClock
    /\ now' = now + 1
    /\ UNCHANGED <<messages, lastId, scan, context, lock, pc, call, sel, before, res,
                   received, deleted, sent, last>>

Next ==
    \/ \E c \in Callers :
          \/ \E rq \in ConcurrentSends : Invoke(c, rq)
          \/ \E rq \in ConcurrentReceives : Invoke(c, rq)
          \/ \E rq \in ConcurrentPeeks : Invoke(c, rq)
          \/ \E rq \in ConcurrentDeletes : Invoke(c, rq)
          \/ \E rq \in ConcurrentContextSets : Invoke(c, rq)
          \/ Acquire(c)
          \/ Fault(c)
          \/ SendInsert(c)
          \/ PeekSelect(c)
          \/ ReceiveSelect(c)
          \/ ReceiveDelete(c)
          \/ DeleteMessageExec(c)
          \/ ContextSetExec(c)
          \/ Release(c)

Spec == Init /\ [][Next]_vars

\* ------------------------------------------------ what callers were given
\* a receive_messages call whose closure returned Ok(messages)
Delivering(c) == pc[c] = "unlock" /\ call[c].op = "receive_messages" /\ IsOk(res[c])

\* a delete_message call whose closure returned Ok(true)
Deleting(c) ==
    pc[c] = "unlock" /\ call[c].op = "delete_message" /\ IsOk(res[c]) /\ res[c].val

\* the receive_messages calls, returned or returning, whose result holds id i
ReceiveCount(i) ==
    received[i] + Cardinality({c \in Callers : Delivering(c) /\ i \in ResultIds(res[c].val)})

\* the delete_message calls, returned or returning, that removed id i
DeleteCount(i) ==
    deleted[i] + Cardinality({c \in Callers :
                                Deleting(c) /\ i = Unwrap(ParseI64(call[c].message_id))})

PendingCount(i) == Cardinality({m \in messages : m.id = i})

Ids(rows) == {m.id : m \in rows}

\* the step in which caller c's query_messages yields a result: the ids in it
Selects(c, ids) ==
    \/ /\ call[c].op = "receive_messages" /\ pc[c] = "cs" /\ pc'[c] = "del"
       /\ ids = ResultIds(sel'[c])
    \/ /\ call[c].op \in {"receive_messages", "peek_messages"}
       /\ pc[c] = "cs" /\ pc'[c] = "unlock" /\ IsOk(res'[c])
       /\ ids = ResultIds(res'[c].val)

\* C1: exactly-once delivery.  No message id is in the result of more than one
\* receive_messages call, and no receive_messages or peek_messages query yields
\* an id that a receive_messages call has already returned.
C1_ExactlyOnce ==
    /\ [](\A i \in 1..MaxSends : ReceiveCount(i) <= 1)
    /\ [][\A c \in Callers : \A ids \in SUBSET (1..MaxSends) :
            Selects(c, ids) => \A i \in ids : ReceiveCount(i) = 0]_vars

\* C1 witness: two concurrent receive_messages calls on one queue: one is
\* returning a message while the other waits for the lock, a message pending
C1_Witness ==
    \E c, d \in Callers :
        /\ c # d /\ Delivering(c) /\ res[c].val # <<>>
        /\ pc[d] = "lock" /\ call[d].op = "receive_messages"
        /\ call[d].project_id = call[c].project_id /\ call[d].agent_id = call[c].agent_id
        /\ QueueRows(messages, call[c].project_id, call[c].agent_id) # {}

\* C3: receive_messages is all-or-nothing.  While the call is between its
\* SELECT and its DELETE the tables are as they were when it began; when it
\* ends in an error (a fault in the SELECT, or after it, or in the DELETE), it
\* returns no messages and the tables are as they were when it began; when it
\* ends in Ok, the rows gone since it began are exactly the rows it returns.
C3_AllOrNothing ==
    \A c \in Callers :
        call[c].op = "receive_messages" =>
            /\ pc[c] = "del" => messages = before[c].messages
            /\ pc[c] = "unlock" /\ IsErr(res[c]) =>
                  /\ messages = before[c].messages
                  /\ sel[c] = <<>>
            /\ pc[c] = "unlock" /\ IsOk(res[c]) =>
                  /\ Ids(before[c].messages \ messages) = ResultIds(res[c].val)
                  /\ messages \subseteq before[c].messages

\* C3 witness: a receive_messages call that had selected messages failed in
\* its DELETE and is returning the error, the messages still pending
C3_Witness ==
    \E c \in Callers :
        /\ pc[c] = "unlock" /\ call[c].op = "receive_messages"
        /\ IsErr(res[c]) /\ res[c].err = "Sqlite:delete"
        /\ QueueRows(messages, call[c].project_id, call[c].agent_id) # {}

\* C4: a successful receive_messages(p, a, limit) removes precisely the
\* messages it returns, all of them rows of queue (p, a), and changes nothing
\* else: the other rows of the queue, the rows of other queues and the context
\* entries are as they were when the call's critical section began.
C4_ReceiveFrame ==
    \A c \in Callers :
        Delivering(c) =>
            /\ messages = {m \in before[c].messages : m.id \notin ResultIds(res[c].val)}
            /\ ResultIds(res[c].val) \subseteq
                  Ids(QueueRows(before[c].messages, call[c].project_id, call[c].agent_id))
            /\ context = before[c].context

\* C4 witness: a receive_messages call returns one message of its queue while
\* another message, of that queue or of another one, and a context entry remain
C4_Witness ==
    \E c \in Callers :
        /\ Delivering(c) /\ Len(res[c].val) = 1
        /\ \/ QueueRows(messages, call[c].project_id, call[c].agent_id) # {}
           \/ \E m \in messages : m.to_agent # call[c].agent_id
        /\ context # <<>>

\* C5: no message is lost.  Every message inserted by send_message is in
\* exactly one condition: pending, returned by exactly one receive_messages
\* call, or removed by one delete_message call that returned true; and no two
\* send_message calls return the same id (k successful sends, k messages).
C5_NoMessageLost ==
    /\ \A i \in 1..lastId : PendingCount(i) + ReceiveCount(i) + DeleteCount(i) = 1
    /\ \A i \in 1..MaxSends :
          /\ i > lastId => PendingCount(i) + ReceiveCount(i) + DeleteCount(i) = 0
          /\ sent[i] <= 1
          /\ sent[i] = 1 => i <= lastId

\* C5 witness: two send_message calls have returned; one of their messages
\* was returned by a receive_messages call, the other removed by delete_message
C5_Witness ==
    \E i, j \in 1..MaxSends :
        sent[i] = 1 /\ sent[j] = 1 /\ received[i] = 1 /\ deleted[j] = 1

\* the callers inside the closure of with_conn
InCriticalSection == {c \in Callers : pc[c] \in {"cs", "del", "unlock"}}

\* C6: mutual exclusion.  At most one caller is inside its critical section,
\* and while a receive_messages call is between its SELECT and its DELETE no
\* other caller takes a step inside a critical section and no table changes.
C6_MutualExclusion ==
    /\ [](Cardinality(InCriticalSection) <= 1 /\ lock = InCriticalSection)
    /\ [][\A c \in Callers :
            pc[c] = "del" =>
                /\ \A d \in Callers \ {c} : pc[d] \in {"idle", "lock"} /\ pc'[d] \in {"idle", "lock"}
                /\ pc'[c] = "del" => store' = store]_vars

\* C6 witness: a receive_messages call is between its SELECT and its DELETE
\* while another caller waits for the lock with a send_message
C6_Witness ==
    \E c, d \in Callers :
        pc[c] = "del" /\ pc[d] = "lock" /\ call[d].op = "send_message"

\* ------------------------------------------- one caller, whole operations
\* Each action below is one call on the handle from invocation to return, the
\* lock taken and released inside it; last is the call and what it returned.
Returned(rq, r) == last' = [call |-> rq, res |-> r]

\* the call fails validation before with_conn, or a statement of its closure
\* fails: an error is returned and no table changes
Refuse(rq) ==
    /\ \/ IsSome(Validate(rq)) /\ Returned(rq, Unwrap(Validate(rq)))
       \/ Validate(rq) = None /\ Returned(rq, Err("Sqlite"))
    /\ UNCHANGED <<messages, lastId, now, scan, context, lock, pc, call, sel, before, res,
                   received, deleted, sent>>

\* Database::context_set
ContextSet(rq) ==
    /\ Validate(rq) = None
    /\ Len(Upsert(context, rq.project_id, Trim(rq.key), rq.value)) <= MaxCtxRows
    /\ context' = Upsert(context, rq.project_id, Trim(rq.key), rq.value)
    /\ Returned(rq, Ok("unit"))
    /\ UNCHANGED <<messages, lastId, now, scan, lock, pc, call, sel, before, res,
                   received, deleted, sent>>

\* Database::context_get
ContextGet(rq) ==
    /\ \E v \in SelectValue(context, rq.project_id, rq.key) : Returned(rq, Ok(v))
    /\ UNCHANGED <<messages, lastId, now, scan, context, lock, pc, call, sel, before, res,
                   received, deleted, sent>>

\* faulty variant: deleting an entry of a project also deletes the project's messages
ContextDeleteCascading(rq) ==
    /\ context' = DeleteContext(context, rq.project_id, rq.key)
    /\ messages' = {m \in messages : Some(m.project_id) # rq.project_id}
    /\ Returned(rq, Ok(\E i \in 1..Len(context) : MatchesKey(context[i], rq.project_id, rq.key)))
    /\ UNCHANGED <<lastId, now, scan, lock, pc, call, sel, before, res,
                   received, deleted, sent>>

\* Database::context_delete
ContextDelete(rq) ==
    /\ context' = DeleteContext(context, rq.project_id, rq.key)
    /\ Returned(rq, Ok(\E i \in 1..Len(context) : MatchesKey(context[i], rq.project_id, rq.key)))
    /\ UNCHANGED <<messages, lastId, now, scan, lock, pc, call, sel, before, res,
                   received, deleted, sent>>

\* Database::context_list
ContextList(rq) ==
    /\ Returned(rq, Ok(SelectKeys(context, rq.project_id)))
    /\ UNCHANGED <<messages, lastId, now, scan, context, lock, pc, call, sel, before, res,
                   received, deleted, sent>>

J == <<"j">>
SpaceK == <<" ", "k">>
Blank == <<" ">>

Scopes == {None, Some(P), Some(Q)}
KeyArgs == {K, SpaceK, J}
ValueArgs == {V, W}

ContextSets ==
    {ContextSetCall(s, k, v) : s \in Scopes, k \in {K, SpaceK}, v \in ValueArgs}
    \cup {ContextSetCall(s, k, V) : s \in Scopes, k \in {J, Blank}}
ContextGets == {ContextGetCall(s, k) : s \in Scopes, k \in KeyArgs}
ContextDeletes == {ContextDeleteCall(s, k) : s \in Scopes, k \in KeyArgs}
ContextLists == {ContextListCall(s) : s \in Scopes}

NextContext ==
    \/ \E rq \in ContextSets : ContextSet(rq)
    \/ \E rq \in {ContextSetCall(s, k, V) : s \in Scopes, k \in {K, Blank}} : Refuse(rq)
    \/ \E rq \in ContextGets : ContextGet(rq)
    \/ \E rq \in ContextDeletes : ContextDelete(rq)
    \/ \E rq \in ContextLists : ContextList(rq)

SpecContext == Init /\ [][NextContext]_vars

\* a step that completes a call of one of the operations ops
Completes(ops) == last'.call.op \in ops /\ now' = now

\* C7: upsert overwrites.  For a key without surrounding whitespace, a
\* successful context_set(scope, k, v2), whatever was set before it, followed
\* by context_get(scope, k) returns v2, in every scope.
C7_UpsertOverwrites ==
    [][(/\ last.call.op = "context_set" /\ IsOk(last.res)
        /\ Trim(last.call.key) = last.call.key
        /\ Completes({"context_get"})
        /\ last'.call.project_id = last.call.project_id
        /\ last'.call.key = last.call.key)
       => IsOk(last'.res) /\ last'.res.val = Some(last.call.value)]_vars

\* C8: the context table holds at most one row for each (scope, key).
C8_AtMostOneEntry ==
    \A i, j \in 1..Len(context) :
        i # j => ~(context[i].project_id = context[j].project_id
                   /\ context[i].key = context[j].key)

\* C9: scope independence.  A context_set or context_delete on a scope leaves
\* what context_get can return for every key, and what context_list returns,
\* unchanged in every other scope.
C9_ScopeIndependence ==
    [][Completes({"context_set", "context_delete"}) =>
        \A s \in Scopes \ {last'.call.project_id} :
            /\ \A k \in KeyArgs : SelectValue(context', s, k) = SelectValue(context, s, k)
            /\ SelectKeys(context', s) = SelectKeys(context, s)]_vars

\* C9 witness: a context_delete removed a key in one scope and the same key
\* is still stored in another scope
C9_Witness ==
    /\ last.call.op = "context_delete" /\ IsOk(last.res) /\ last.res.val
    /\ \E i \in 1..Len(context) :
          context[i].key = last.call.key /\ context[i].project_id # last.call.project_id

\* C10: key normalisation is consistent.  After a successful
\* context_set(scope, k, v), context_get(scope, k) with the identical k returns
\* v, and context_delete(scope, k) with the identical k returns true and leaves
\* no entry for the key.
C10_KeyNormalisation ==
    [][(/\ last.call.op = "context_set" /\ IsOk(last.res)
        /\ Completes({"context_get", "context_delete"})
        /\ last'.call.project_id = last.call.project_id
        /\ last'.call.key = last.call.key)
       => /\ IsOk(last'.res)
          /\ last'.call.op = "context_get" => last'.res.val = Some(last.call.value)
          /\ last'.call.op = "context_delete" =>
                /\ last'.res.val
                /\ ~ \E i \in 1..Len(context') :
                       MatchesKey(context'[i], last.call.project_id, Trim(last.call.key))]_vars

\* the keys stored in the rows of a scope
KeysOf(ctx, project_id) ==
    {ctx[i].key : i \in {j \in 1..Len(ctx) : ctx[j].project_id = project_id}}

\* C13: context_delete(scope, key) returns Ok(true) exactly when a row of that
\* scope with that key was stored immediately before the call and Ok(false)
\* otherwise, never an error for a missing key; after it context_get(scope,
\* key) reports not found; when no such row was stored the table is unchanged,
\* so a second context_delete right after the first returns false and changes
\* nothing.  The key is compared as given.
C13_DeleteReportsPresence ==
    [][Completes({"context_delete"}) =>
        LET scope == last'.call.project_id
            key == last'.call.key
            present == key \in KeysOf(context, scope)
        IN  /\ last'.res = Ok(present)
            /\ SelectValue(context', scope, key) = {None}
            /\ ~present => context' = context
            /\ (/\ last.call.op = "context_delete"
                /\ last.call.project_id = scope /\ last.call.key = key)
               => last'.res = Ok(FALSE) /\ context' = context]_vars

\* C13 witness: a context_delete returned false for a key that its scope does
\* not hold while another scope holds that key
C13_Witness ==
    /\ last.call.op = "context_delete" /\ last.res = Ok(FALSE)
    /\ \E i \in 1..Len(context) :
          context[i].key = last.call.key /\ context[i].project_id # last.call.project_id

\* C14: context_list(scope) returns Ok with exactly the keys that have an
\* entry in that scope, each listed once, none of another scope, in ascending
\* order, and changes no table.
C14_ListExact ==
    [][Completes({"context_list"}) =>
        /\ IsOk(last'.res)
        /\ Range(last'.res.val) = KeysOf(context, last'.call.project_id)
        /\ \A i, j \in 1..Len(last'.res.val) :
              i < j => StrLess(last'.res.val[i], last'.res.val[j])
        /\ context' = context /\ messages' = messages]_vars

\* ---------------------------------------------- one caller, message queue
\* Database::send_message
SendMessage(rq) ==
    /\ Validate(rq) = None
    /\ lastId < MaxQueued
    /\ messages' = InsertMessage(messages, lastId, now, rq.project_id, rq.to_agent,
                                 rq.from_agent, rq.reference_id, rq.content)
    /\ lastId' = Max(lastId, NextId(messages, lastId))
    /\ Returned(rq, Ok(IdToString(NextId(messages, lastId))))
    /\ UNCHANGED <<now, scan, context, lock, pc, call, sel, before, res, received, deleted, sent>>

\* Database::receive_messages
ReceiveMessages(rq) ==
    /\ \E r \in QueryMessages(messages, rq.project_id, rq.agent_id, EffectiveLimit(rq.limit)) :
          /\ messages' = IF r = <<>> THEN messages ELSE AfterReceiveDelete(messages, r)
          /\ Returned(rq, Ok(r))
    /\ UNCHANGED <<lastId, now, scan, context, lock, pc, call, sel, before, res,
                   received, deleted, sent>>

\* faulty variant: peek_messages consumes what it returns
PeekMessagesConsuming(rq) == ReceiveMessages(rq)

\* Database::peek_messages
PeekMessages(rq) ==
    /\ \E r \in QueryMessages(messages, rq.project_id, rq.agent_id, EffectiveLimit(rq.limit)) :
          Returned(rq, Ok(r))
    /\ UNCHANGED <<messages, lastId, now, scan, context, lock, pc, call, sel, before, res,
                   received, deleted, sent>>

\* Database::delete_message
DeleteMessage(rq) ==
    /\ Validate(rq) = None
    /\ LET id == Unwrap(ParseI64(rq.message_id)) IN
          /\ messages' = DeleteId(messages, id)
          /\ Returned(rq, Ok(\E m \in messages : m.id = id))
    /\ UNCHANGED <<lastId, now, scan, context, lock, pc, call, sel, before, res,
                   received, deleted, sent>>

Queues == {<<P, A>>, <<P, B>>, <<Q, A>>}
LimitArgs == {None, Some(1), Some(2)}

SendMessages == {SendCall(q[1], q[2], X, H, None) : q \in Queues}
ReceiveArgs == {ReceiveCall(q[1], q[2], l) : q \in Queues, l \in LimitArgs}
PeekArgs == {PeekCall(q[1], q[2], l) : q \in Queues, l \in {None, Some(1)}}
DeleteArgs == {DeleteMessageCall(IdToString(i)) : i \in 1..MaxQueued}

NextQueue ==
    \/ Tick
    \/ \E rq \in SendMessages : SendMessage(rq)
    \/ \E rq \in ReceiveArgs : ReceiveMessages(rq)
    \/ \E rq \in {ReceiveCall(P, A, None)} : Refuse(rq)
    \/ \E rq \in PeekArgs : PeekMessages(rq)
    \/ \E rq \in DeleteArgs : DeleteMessage(rq)

SpecQueue == Init /\ [][NextQueue]_vars

\* the messages of queue (project_id, agent_id) in the order they were sent,
\* which is the order of their ids
RECURSIVE InSendOrder(_)
InSendOrder(rows) ==
    IF rows = {} THEN <<>>
    ELSE LET first == CHOOSE m \in rows : \A o \in rows : m.id <= o.id
         IN <<Message(first)>> \o InSendOrder(rows \ {first})

C17_PeekRepeatable ==
    [][Completes({"peek_messages"}) =>
        /\ messages' = messages /\ context' = context /\ lastId' = lastId
        /\ (last.call = last'.call /\ IsOk(last.res) /\ IsOk(last'.res))
              => last'.res.val = last.res.val]_vars

\* C17 witness: a peek_messages with limit 1 returned one message of a queue
\* that holds two messages of the same second
C17_Witness ==
    /\ last.call.op = "peek_messages" /\ last.call.limit = Some(1)
    /\ IsOk(last.res) /\ Len(last.res.val) = 1
    /\ \E m, o \in QueueRows(messages, last.call.project_id, last.call.agent_id) :
          m.id # o.id /\ m.created_at = o.created_at

\* ------------------------------------------- one caller, a populated queue
\* the messages table after n send_message calls to queue (P, A) within one
\* second, as a database opened on an existing file holds it
Bulk(n) == {MessageRow(i, P, A, X, None, H, 1) : i \in 1..n}

\* queue sizes around the default limit and around the cap
QueueSizes == {99, 101, 499, 500, 501}

InitLimit ==
    /\ \E n \in QueueSizes : messages = Bulk(n) /\ lastId = n
    /\ scan \in {"asc", "desc"}
    /\ now = 1
    /\ context = <<>>
    /\ lock = {}
    /\ pc = [c \in Callers |-> "idle"]
    /\ call = [c \in Callers |-> NoCall]
    /\ sel = [c \in Callers |-> <<>>]
    /\ before = [c \in Callers |-> NoSnapshot]
    /\ res = [c \in Callers |-> NoRes]
    /\ received = [i \in 1..MaxSends |-> 0]
    /\ deleted = [i \in 1..MaxSends |-> 0]
    /\ sent = [i \in 1..MaxSends |-> 0]
    /\ last = [call |-> NoCall, res |-> NoRes]

LargeLimits == {None, Some(0), Some(100), Some(500), Some(501), Some(1000)}

NextLimit ==
    \/ \E l \in LargeLimits : ReceiveMessages(ReceiveCall(P, A, l))
    \/ \E l \in LargeLimits : PeekMessages(PeekCall(P, A, l))
    \/ \E l \in {Some(1000)} : Refuse(ReceiveCall(P, A, l))

SpecLimit == InitLimit /\ [][NextLimit]_vars

\* C18: limit handling.  A receive_messages or peek_messages call is never
\* refused for its limit; it returns min(limit, 500, pending) messages, 100
\* standing for an omitted limit: what LIMIT 100 yields when the limit is
\* omitted and what LIMIT 500 yields when the limit is above 500; and
\* receive_messages deletes as many messages as it returns.
C18_LimitHandling ==
    [][Completes({"receive_messages", "peek_messages"}) =>
        LET rq == last'.call
            pending == Cardinality(QueueRows(messages, rq.project_id, rq.agent_id))
            asked == IF rq.limit = None THEN 100 ELSE Min(Unwrap(rq.limit), 500)
        IN  /\ IsOk(last'.res) \/ last'.res = Err("Sqlite")
            /\ IsOk(last'.res) =>
                  /\ Len(last'.res.val) = Min(asked, pending)
                  /\ last'.res.val \in QueryMessages(messages, rq.project_id, rq.agent_id, asked)
                  /\ rq.op = "receive_messages" =>
                        Cardinality(messages) - Cardinality(messages') = Len(last'.res.val)
                  /\ rq.op = "peek_messages" => messages' = messages]_vars

\* C18 witness: a receive_messages with limit 1000 returned 500 messages and
\* left a message pending
C18_Witness ==
    /\ last.call.op = "receive_messages" /\ last.call.limit = Some(1000)
    /\ IsOk(last.res) /\ Len(last.res.val) = 500
    /\ messages # {}

\* ------------------------------------ one caller, both tables: validation
EmptyStr == <<>>
Blanks == <<" ", " ">>

\* payloads at the size limits and one byte over
FullValue == Repeat("v", MAX_CONTEXT_VALUE_SIZE)
OverValue == Repeat("v", MAX_CONTEXT_VALUE_SIZE + 1)
FullContent == Repeat("h", MAX_MESSAGE_SIZE)
OverContent == Repeat("h", MAX_MESSAGE_SIZE + 1)

CheckedSets ==
    {ContextSetCall(Some(P), K, v) : v \in {FullValue, OverValue}}
    \cup {ContextSetCall(None, K, V)}
    \cup {ContextSetCall(s, k, V) : s \in Scopes, k \in {EmptyStr, Blank, Blanks}}

CheckedSends ==
    {SendCall(P, A, X, c, None) : c \in {FullContent, OverContent}}
    \cup {SendCall(Q, A, X, H, None), SendCall(Blank, A, X, H, None),
          SendCall(P, EmptyStr, X, H, None), SendCall(P, A, Blanks, H, None),
          SendCall(Blank, EmptyStr, Blanks, H, None)}

CheckedPeeks == {PeekCall(P, A, None), PeekCall(Q, A, Some(1))}

NextValidate ==
    \/ \E rq \in CheckedSets : ContextSet(rq)
    \/ \E rq \in CheckedSets : Refuse(rq)
    \/ \E rq \in CheckedSends : SendMessage(rq)
    \/ \E rq \in CheckedSends : Refuse(rq)
    \/ \E rq \in CheckedPeeks : PeekMessages(rq)

SpecValidate == Init /\ [][NextValidate]_vars

\* an argument that is empty or holds nothing but whitespace
IsBlank(s) == \A i \in 1..Len(s) : s[i] \in Whitespace

\* C11: context_set with an empty or whitespace-only key returns
\* EmptyField{field: "key"} in every scope, Global or Project, and the call
\* changes no context entry and no message.
C11_EmptyKeyRejected ==
    [][Completes({"context_set"}) /\ IsBlank(last'.call.key) =>
        /\ last'.res = Err("EmptyField:key")
        /\ context' = context
        /\ messages' = messages]_vars

\* C11 witness: a context_set with a whitespace-only key on the Global scope
\* returned EmptyField while a context entry and a message are stored
C11_Witness ==
    /\ last.call.op = "context_set" /\ last.call.key = Blank
    /\ last.call.project_id = None
    /\ last.res = Err("EmptyField:key")
    /\ context # <<>> /\ messages # {}

\* C12: context value size boundary.  A context_set with a usable key and a
\* value of at most 65,536 bytes is not refused for its size, and when it
\* returns Ok the value is stored; with a value of 65,537 bytes or more it
\* returns ContentTooLarge{size, limit: 65536} and the context table, so any
\* value stored before for that (scope, key), is unchanged.
C12_ValueSizeBoundary ==
    [][Completes({"context_set"}) /\ ~IsBlank(last'.call.key) =>
        LET size == ByteLen(last'.call.value) IN
        /\ size <= 65536 =>
              /\ last'.res \in {Ok("unit"), Err("Sqlite")}
              /\ IsOk(last'.res) =>
                    Some(last'.call.value) \in
                        SelectValue(context', last'.call.project_id, Trim(last'.call.key))
        /\ size >= 65537 =>
              /\ last'.res = ContentTooLarge(size, 65536)
              /\ context' = context]_vars

\* C12 witness: a context_set with a value of 65,537 bytes was refused while
\* the entry of its (scope, key) holds a value of exactly 65,536 bytes
C12_Witness ==
    /\ last.call.op = "context_set" /\ ByteLen(last.call.value) = 65537
    /\ last.res = ContentTooLarge(65537, 65536)
    /\ \E i \in 1..Len(context) :
          /\ MatchesKey(context[i], last.call.project_id, last.call.key)
          /\ ByteLen(context[i].value) = 65536

\* the EmptyField error for each field send_message checks
FieldError ==
    [project_id |-> Err("EmptyField:project_id"), to_agent |-> Err("EmptyField:to_agent"),
     from_agent |-> Err("EmptyField:from_agent")]

C16_ContentSizeBoundary ==
    [][(/\ Completes({"send_message"})
        /\ \A f \in DOMAIN FieldError : ~IsBlank(last'.call[f])) =>
        LET rq == last'.call
            size == ByteLen(rq.content)
        IN  /\ size = 1048576 =>
                  /\ IsOk(last'.res) \/ last'.res = Err("Sqlite")
                  /\ IsOk(last'.res) =>
                        \E m \in messages' \ messages :
                            /\ IdToString(m.id) = last'.res.val
                            /\ m.content = rq.content
                            /\ m.project_id = rq.project_id /\ m.to_agent = rq.to_agent
            /\ size = 1048577 =>
                  /\ last'.res = ContentTooLarge(1048577, 1048576)
                  /\ messages' = messages
                  /\ \A l \in LimitArgs :
                        QueryMessages(messages', rq.project_id, rq.to_agent, EffectiveLimit(l))
                            = QueryMessages(messages, rq.project_id, rq.to_agent, EffectiveLimit(l))]_vars

\* C16 witness: a send_message with a content of 1,048,577 bytes was refused
\* while a message of exactly 1,048,576 bytes is pending in the target queue
C16_Witness ==
    /\ last.call.op = "send_message" /\ ByteLen(last.call.content) = 1048577
    /\ last.res = ContentTooLarge(1048577, 1048576)
    /\ \E m \in QueueRows(messages, last.call.project_id, last.call.to_agent) :
          ByteLen(m.content) = 1048576

\* ---------------------------------------- one caller, deletion by message id
\* a decimal numeral one above i64::MAX
AboveI64 == <<"9", "2", "2", "3", "3", "7", "2", "0", "3", "6", "8", "5", "4", "7", "7",
              "5", "8", "0", "8">>

MessageIdArgs ==
    {IdToString(i) : i \in 1..(MaxQueued + 1)}
    \cup {<<"+", "1">>, <<"0", "2">>, <<"-", "1">>, <<"x">>, <<"1", "x">>, <<" ", "1">>,
          EmptyStr, AboveI64}

NextDelete ==
    \/ \E rq \in {SendCall(q[1], A, X, H, None) : q \in {<<P>>, <<Q>>}} : SendMessage(rq)
    \/ \E id \in MessageIdArgs : DeleteMessage(DeleteMessageCall(id))
    \/ \E id \in MessageIdArgs : Refuse(DeleteMessageCall(id))
    \/ \E rq \in {ReceiveCall(P, A, Some(1))} : ReceiveMessages(rq)
    \/ \E rq \in {PeekCall(P, A, None)} : PeekMessages(rq)

SpecDelete == Init /\ [][NextDelete]_vars

\* the digits of a decimal numeral with an optional sign, None when the text
\* is not such a numeral
NumeralDigits(text) ==
    LET body == IF text # <<>> /\ Head(text) \in {"+", "-"} THEN Tail(text) ELSE text
    IN  IF AllDigits(body) THEN Some(body) ELSE None

\* the text is a decimal numeral, with an optional sign
IsNumeral(text) == IsSome(NumeralDigits(text))

\* the text is a decimal numeral within the range of a signed 64-bit integer
IsI64Numeral(text) ==
    /\ IsNumeral(text)
    /\ DigitsLeq(Unwrap(NumeralDigits(text)),
                 IF Head(text) = "-" THEN I64MinDigits ELSE I64MaxDigits)

\* the text is a numeral of the value of message id n, a positive integer
Denotes(text, n) ==
    /\ IsNumeral(text)
    /\ StripZeros(Unwrap(NumeralDigits(text))) = IdToString(n)
    /\ Head(text) # "-"

\* what a delete_message call did when its id is taken as the id of a
\* message: Ok(true) and the one pending message of that id removed, whatever
\* its queue, so that no query returns it; Ok(false) and no change when no
\* pending message has that id; no change on a storage error
DeletesById ==
    LET target == {m \in messages : Denotes(last'.call.message_id, m.id)}
    IN  /\ last'.res \in {Ok(target # {}), Err("Sqlite")}
        /\ Cardinality(target) <= 1
        /\ messages' = IF IsOk(last'.res) THEN messages \ target ELSE messages
        /\ \A q \in Queues : \A l \in LimitArgs :
              \A r \in QueryMessages(messages', q[1], q[2], EffectiveLimit(l)) :
                  IsOk(last'.res) => ~ \E i \in ResultIds(r) : Denotes(last'.call.message_id, i)

\* what a delete_message call did when its id is refused
RefusesId == last'.res = Err("InvalidMessageId") /\ messages' = messages

\* the id of a message that was received or deleted is never the id of a
\* pending message again
GoneStaysGone == \A i \in 1..lastId : i \notin Ids(messages) => i \notin Ids(messages')

\* C19 as stated: delete_message(id) with a numeric id removes the single
\* pending message of that id, whatever its queue, and returns true, after
\* which no peek_messages or receive_messages returns it, or returns false and
\* changes nothing when the id was never assigned or its message was received
\* or deleted; with a non-numeric id it returns InvalidMessageId and changes
\* nothing.
C19_DeleteMessage ==
    [][/\ Completes({"delete_message"}) =>
            /\ IsNumeral(last'.call.message_id) => DeletesById
            /\ ~IsNumeral(last'.call.message_id) => RefusesId
            /\ context' = context
       /\ GoneStaysGone]_vars

\* C19 amended: as C19 with "numeric" read as "a decimal numeral, with an
\* optional sign, within the range of a signed 64-bit integer"; every other
\* id, a decimal numeral outside that range included, returns
\* InvalidMessageId and changes nothing.
C19_DeleteMessageI64 ==
    [][/\ Completes({"delete_message"}) =>
            /\ IsI64Numeral(last'.call.message_id) => DeletesById
            /\ ~IsI64Numeral(last'.call.message_id) => RefusesId
            /\ context' = context
       /\ GoneStaysGone]_vars

\* C19 witness: a delete_message with a decimal numeral above i64::MAX was
\* refused with InvalidMessageId while messages are pending in two queues
C19_Witness ==
    /\ last.call.op = "delete_message" /\ last.call.message_id = AboveI64
    /\ last.res = Err("InvalidMessageId")
    /\ \E m, o \in messages : m.project_id # o.project_id

\* ------------------------------------- concurrent callers, fair scheduling
\* context_get's closure
ContextGetExec(c) ==
    /\ InCs(c, "context_get")
    /\ \E v \in SelectValue(context, call[c].project_id, call[c].key) : Finish(c, Ok(v))
    /\ UNCHANGED <<messages, lastId, now, scan, context, lock, call, sel, before, received, deleted, sent, last>>

\* context_list's closure
ContextListExec(c) ==
    /\ InCs(c, "context_list")
    /\ Finish(c, Ok(SelectKeys(context, call[c].project_id)))
    /\ UNCHANGED <<messages, lastId, now, scan, context, lock, call, sel, before, received, deleted, sent, last>>

\* a statement of the closure caller c runs under the lock
Body(c) ==
    \/ Fault(c)
    \/ SendInsert(c)
    \/ PeekSelect(c)
    \/ ReceiveSelect(c)
    \/ ReceiveDelete(c)
    \/ DeleteMessageExec(c)
    \/ ContextSetExec(c)
    \/ ContextGetExec(c)
    \/ ContextDeleteExec(c)
    \/ ContextListExec(c)

\* one call of each of the eight operations
FairSends == {SendCall(P, A, X, H, None)}
FairReceives == {ReceiveCall(P, A, None)}
FairContextGets == {ContextGetCall(Some(P), K)}
FairContextLists == {ContextListCall(Some(P))}

NextFair ==
    \E c \in Callers :
        \/ \E rq \in FairSends : Invoke(c, rq)
        \/ \E rq \in FairReceives : Invoke(c, rq)
        \/ \E rq \in ConcurrentPeeks : Invoke(c, rq)
        \/ \E rq \in ConcurrentDeletes : Invoke(c, rq)
        \/ \E rq \in ConcurrentContextSets : Invoke(c, rq)
        \/ \E rq \in FairContextGets : Invoke(c, rq)
        \/ \E rq \in ConcurrentContextDeletes : Invoke(c, rq)
        \/ \E rq \in FairContextLists : Invoke(c, rq)
        \/ Acquire(c)
        \/ Body(c)
        \/ Release(c)

\* the caller inside with_conn runs its next statement or returns
HolderStep == \E c \in Callers : Body(c) \/ Release(c)

\* Every thread is scheduled: the caller that holds the lock runs its next
\* statement and returns (weak fairness; at most one caller holds the lock).
\* The lock is handed over fairly: a caller that finds the lock free again and
\* again gets it (strong fairness).
Fairness ==
    /\ WF_vars(HolderStep)
    /\ \A c \in Callers : SF_vars(Acquire(c))

SpecFair == Init /\ [][NextFair]_vars /\ Fairness

\* C20: no operation blocks forever and no deadlock is reachable.  With fair
\* scheduling, every call of any of the eight operations that has been invoked
\* returns, with a result or an error; a caller that is not inside with_conn
\* does not hold the lock, so the lock is released after every operation,
\* failed or not; and in every reachable state some step is possible.
C20_NoBlocking ==
    /\ \A c \in Callers : (pc[c] # "idle") ~> (pc[c] = "idle")
    /\ [](\A c \in Callers : pc[c] \in {"idle", "lock"} => c \notin lock)
    /\ [](ENABLED NextFair)

\* C20 witness: a caller whose closure returned an error still holds the lock
\* while another caller waits for it
C20_Witness ==
    \E c, d \in Callers :
        /\ pc[c] = "unlock" /\ IsErr(res[c]) /\ c \in lock
        /\ pc[d] = "lock"

\* ------------------------------------------------ the life of one message
\* the step in which caller c's closure removes the message of id i and
\* returns it: the DELETE of a receive_messages whose result holds i, or a
\* delete_message of i that returns true
Removes(c, i) ==
    \/ /\ pc[c] = "del" /\ pc'[c] = "unlock" /\ IsOk(res'[c])
       /\ i \in ResultIds(res'[c].val)
    \/ /\ InCs(c, "delete_message") /\ pc'[c] = "unlock" /\ IsOk(res'[c])
       /\ res'[c].val
       /\ i = Unwrap(ParseI64(call[c].message_id))

\* C21: message lifecycle.  In every step each pending message either stays
\* pending as the same row (id, from_agent, reference_id, content, created_at
\* and queue unchanged) and no call returns it as removed, or it leaves the
\* table in the step of exactly one call: a receive_messages that returns it
\* or a delete_message of its id that returns true.  A row that enters the
\* table carries an id never assigned before, so a removed message never is
\* pending again; no two pending rows share an id; and no message that a
\* receive_messages or delete_message call returned as removed is pending.
C21_Lifecycle ==
    /\ [][\A m \in messages :
            LET by == {c \in Callers : Removes(c, m.id)}
            IN  IF m \in messages' THEN by = {} ELSE Cardinality(by) = 1]_vars
    /\ [][\A n \in messages' \ messages :
            n.id > lastId /\ \A m \in messages : m.id # n.id]_vars
    /\ [](\A m, o \in messages : m.id = o.id => m = o)
    /\ [](\A i \in 1..MaxSends :
            ReceiveCount(i) + DeleteCount(i) >= 1 => PendingCount(i) = 0)

\* C21 witness: of two messages sent, one was returned by a receive_messages
\* call and is gone while the other is still pending
C21_Witness ==
    \E i, j \in 1..MaxSends :
        /\ i # j /\ sent[i] = 1 /\ sent[j] = 1
        /\ received[i] = 1 /\ PendingCount(i) = 0
        /\ PendingCount(j) = 1 /\ received[j] = 0 /\ deleted[j] = 0

\* --------------------------------------- the order of same-second messages
\* the rows as Messages in the total order by (created_at, id)
RECURSIVE ByCreatedAtThenId(_)
ByCreatedAtThenId(rows) ==
    IF rows = {} THEN <<>>
    ELSE LET first == CHOOSE m \in rows : \A o \in rows :
                          \/ m.created_at < o.created_at
                          \/ m.created_at = o.created_at /\ m.id <= o.id
         IN <<Message(first)>> \o ByCreatedAtThenId(rows \ {first})

Anonymous == <<"a", "n", "o", "n", "y", "m", "o", "u", "s">>

\* faulty variant: the sender is passed on as given, the empty string when missing
FromAgentAsGiven(from_agent) == IF IsSome(from_agent) THEN Unwrap(from_agent) ELSE <<>>

\* params.from_agent.as_deref().map(str::trim).filter(|s| !s.is_empty())
\*     .unwrap_or("anonymous")
FromAgentOrAnonymous(from_agent) ==
    IF IsSome(from_agent) /\ Trim(Unwrap(from_agent)) # <<>>
    THEN Trim(Unwrap(from_agent)) ELSE Anonymous

\* SendMessageParams: from_agent and reference_id are Options
SendMessageParams(project_id, to_agent, from_agent, content, reference_id) ==
    [op |-> "tool_send_message", project_id |-> project_id, to_agent |-> to_agent,
     from_agent |-> from_agent, reference_id |-> reference_id, content |-> content]

\* MailboxServer::send_message: the sender is defaulted, Database::send_message
\* is called with it, and its error, if any, is passed on as the text of an
\* McpError (kept here as the DbError it was made from)
ToolSendMessage(params) ==
    LET rq == SendCall(params.project_id, params.to_agent,
                       FromAgentOrAnonymous(params.from_agent), params.content,
                       params.reference_id)
    IN  /\ \/ /\ IsSome(Validate(rq))
              /\ Returned(params, Unwrap(Validate(rq)))
              /\ UNCHANGED <<messages, lastId>>
           \/ /\ Validate(rq) = None
              /\ Returned(params, Err("Sqlite"))
              /\ UNCHANGED <<messages, lastId>>
           \/ /\ Validate(rq) = None
              /\ lastId < MaxQueued
              /\ messages' = InsertMessage(messages, lastId, now, rq.project_id, rq.to_agent,
                                           rq.from_agent, rq.reference_id, rq.content)
              /\ lastId' = Max(lastId, NextId(messages, lastId))
              /\ Returned(params, Ok(IdToString(NextId(messages, lastId))))
        /\ UNCHANGED <<now, scan, context, lock, pc, call, sel, before, res,
                       received, deleted, sent>>

\* MailboxServer::context_set: Database::context_set with the parameters as
\* they came, project_id.as_deref() included
ToolContextSet(params) ==
    LET rq == ContextSetCall(params.project_id, params.key, params.value)
    IN  ContextSet(rq) \/ Refuse(rq)

SpacedX == <<" ", "x", " ">>

ToolSends ==
    {SendMessageParams(P, A, f, H, None) :
        f \in {None, Some(EmptyStr), Some(Blank), Some(X), Some(SpacedX)}}
    \cup {SendMessageParams(Blank, A, Some(Blank), H, None),
          SendMessageParams(P, EmptyStr, None, H, None),
          SendMessageParams(P, A, Some(Blanks), OverContent, None)}

ToolContextSets ==
    {ContextSetCall(s, K, V) : s \in {None, Some(EmptyStr), Some(Blank), Some(P)}}
    \cup {ContextSetCall(Some(P), Blank, V)}

NextTool ==
    \/ \E params \in ToolSends : ToolSendMessage(params)
    \/ \E params \in ToolContextSets : ToolContextSet(params)

SpecTool == Init /\ [][NextTool]_vars

\* C23: sender default at the tool layer.  A send_message tool request never
\* fails with EmptyField for from_agent; it fails only for a blank project_id,
\* a blank to_agent, a content over the limit or a storage failure, and then
\* stores nothing.  When it succeeds it stores one message, whose from_agent
\* is "anonymous" when the request's from_agent is missing, empty or
\* whitespace-only, and the request's from_agent without its surrounding
\* whitespace otherwise.
C23_SenderDefault ==
    [][Completes({"tool_send_message"}) =>
        LET p == last'.call
            r == last'.res
            blank == ~IsSome(p.from_agent) \/ IsBlank(Unwrap(p.from_agent))
        IN  /\ IsErr(r) =>
                  /\ \/ r.err = "EmptyField:project_id" /\ IsBlank(p.project_id)
                     \/ r.err = "EmptyField:to_agent" /\ IsBlank(p.to_agent)
                     \/ r.err = "ContentTooLarge" /\ ByteLen(p.content) > MAX_MESSAGE_SIZE
                     \/ r.err = "Sqlite"
                  /\ messages' = messages
            /\ IsOk(r) =>
                  \E n \in messages' :
                      /\ messages' = messages \cup {n} /\ n \notin messages
                      /\ IdToString(n.id) = r.val
                      /\ n.from_agent = IF blank THEN Anonymous ELSE Trim(Unwrap(p.from_agent))
                      /\ ~IsBlank(n.from_agent)]_vars

\* C23 witness: tool requests with a whitespace-only sender and with a sender
\* in surrounding whitespace have both succeeded
C23_Witness ==
    /\ last.call.op = "tool_send_message" /\ IsOk(last.res)
    /\ last.call.from_agent = Some(Blank)
    /\ \E m, o \in messages :
          /\ IdToString(m.id) = last.res.val /\ m.from_agent = Anonymous
          /\ o.from_agent = X

\* C26: scope well-formedness.  Every stored context entry is Global
\* (project_id NULL) or belongs to a project whose id is neither empty nor
\* whitespace-only, whatever context_set calls, through the engine or the
\* context_set tool handler, were made.
C26_ScopeWellFormed ==
    \A i \in 1..Len(context) :
        IsSome(context[i].project_id) => ~IsBlank(Unwrap(context[i].project_id))

\* --------------------------------------- one caller, both tables, all calls
ContextOps == {"context_set", "context_get", "context_delete", "context_list"}
MessageOps == {"send_message", "receive_messages", "peek_messages", "delete_message"}

BothContextSets ==
    {ContextSetCall(Some(P), K, V), ContextSetCall(Some(P), K, W),
     ContextSetCall(None, K, V), ContextSetCall(Some(P), Blank, V),
     ContextSetCall(None, K, OverValue)}
BothContextGets == {ContextGetCall(Some(P), K), ContextGetCall(None, J)}
BothContextDeletes == {ContextDeleteCall(Some(P), K), ContextDeleteCall(None, K)}
BothContextLists == {ContextListCall(Some(P))}
BothSends ==
    {SendCall(P, A, X, H, None), SendCall(Q, A, X, H, None),
     SendCall(P, Blank, X, H, None), SendCall(P, A, X, OverContent, None)}
BothReceives == {ReceiveCall(P, A, None), ReceiveCall(P, A, Some(1))}
BothPeeks == {PeekCall(P, A, None)}
BothDeletes == {DeleteMessageCall(IdToString(1)), DeleteMessageCall(IdToString(2)),
                DeleteMessageCall(X)}

NextBoth ==
    \/ \E rq \in BothContextSets : ContextSet(rq)
    \/ \E rq \in BothContextGets : ContextGet(rq)
    \/ \E rq \in BothContextDeletes : ContextDelete(rq)
    \/ \E rq \in BothContextLists : ContextList(rq)
    \/ \E rq \in BothSends : SendMessage(rq)
    \/ \E rq \in BothReceives : ReceiveMessages(rq)
    \/ \E rq \in BothPeeks : PeekMessages(rq)
    \/ \E rq \in BothDeletes : DeleteMessage(rq)
    \/ \E rq \in BothContextSets \cup BothContextGets \cup BothContextDeletes
                  \cup BothContextLists : Refuse(rq)
    \/ \E rq \in BothSends \cup BothReceives \cup BothPeeks : Refuse(rq)
    \/ \E rq \in BothDeletes : Refuse(rq)

SpecBoth == Init /\ [][NextBoth]_vars

\* C24: context and message operations are independent.  A context_set,
\* context_get, context_delete or context_list call, returning Ok or an error,
\* leaves the messages table and the id sequence as they were; a send_message,
\* receive_messages, peek_messages or delete_message call, returning Ok or an
\* error, leaves the context table as it was.
C24_Independence ==
    [][/\ Completes(ContextOps) => messages' = messages /\ lastId' = lastId
       /\ Completes(MessageOps) => context' = context]_vars

\* C24 witness: a context_delete call removed an entry while messages of the
\* same project are pending and another context entry remains
C24_Witness ==
    /\ last.call.op = "context_delete" /\ IsOk(last.res) /\ last.res.val
    /\ \E m \in messages : Some(m.project_id) = last.call.project_id
    /\ context # <<>>

\* ------------------------------------------------ failures and the Mutex
\* C25: every failure is returned, none panics.  No caller ever panics, so the
\* Mutex is never poisoned; a closure that stops, after a failing statement or
\* not, hands with_conn a result, Ok or Err, which the caller gets when the
\* guard is dropped; the guard is dropped on Err as on Ok; and a caller that
\* stops waiting for the lock has acquired it, also after calls that returned
\* an error from inside the critical section.
C25_ErrorsReturned ==
    /\ [](~Poisoned /\ \A c \in Callers : pc[c] # "panicked")
    /\ [][\A c \in Callers :
            /\ (pc[c] \in {"cs", "del"} /\ pc'[c] \notin {"cs", "del"}) =>
                  pc'[c] = "unlock" /\ (IsOk(res'[c]) \/ IsErr(res'[c]))
            /\ (pc[c] = "unlock" /\ pc'[c] # "unlock") =>
                  pc'[c] = "idle" /\ c \notin lock' /\ lock' = {}
            /\ (pc[c] = "lock" /\ pc'[c] # "lock") =>
                  pc'[c] = "cs" /\ lock' = {c}]_vars

\* C25 witness: a send_message call whose INSERT failed is returning the
\* error while another caller, a message pending, waits for the lock
C25_Witness ==
    \E c, d \in Callers :
        /\ pc[c] = "unlock" /\ call[c].op = "send_message" /\ res[c] = Err("Sqlite")
        /\ pc[d] = "lock" /\ call[d].op \in {"receive_messages", "delete_message"}
        /\ messages # {}

\* ------------------------------------------------------- message ids
\* C27: message ids are never reused.  The id a successful send_message
\* returns is above every id assigned before it, pending or removed, so the ids
\* returned are pairwise distinct and increase in the order of the sends; it
\* is the id of the one row the call inserted.  No row enters the table under
\* an id assigned earlier, so a delete_message with an old id removes no newer
\* message: what it removes is at most the one row of that id.
C27_IdsNeverReused ==
    /\ [][(Completes({"send_message"}) /\ IsOk(last'.res)) =>
            LET n == Unwrap(ParseI64(last'.res.val))
            IN  /\ n > lastId /\ lastId' = n
                /\ \A m \in messages : m.id < n
                /\ \E row \in messages' :
                      row.id = n /\ row \notin messages /\ messages' = messages \cup {row}]_vars
    /\ [][\A m \in messages' : m.id <= lastId => m \in messages]_vars
    /\ [][Completes({"delete_message"}) =>
            \A m \in messages \ messages' :
                IdToString(m.id) = last'.call.message_id /\ m.id <= lastId]_vars

\* C27 witness: the messages of ids 1 and 2 were removed, and the send_message
\* that followed returned id 3, the only message pending
C27_Witness ==
    /\ last.call.op = "send_message" /\ last.res = Ok(IdToString(3))
    /\ \A m \in messages : m.id = 3
    /\ messages # {}

\* ------------------------------------------------------- queue isolation
\* a project id that differs from P by a leading space only
SpaceP == <<" ", "p">>

IsolatedQueues == {<<P, A>>, <<P, B>>, <<Q, A>>, <<SpaceP, A>>}

IsolatedSends == {SendCall(q[1], q[2], X, H, None) : q \in IsolatedQueues}
IsolatedReceives == {ReceiveCall(q[1], q[2], l) : q \in IsolatedQueues, l \in {None, Some(1)}}
IsolatedPeeks == {PeekCall(q[1], q[2], None) : q \in IsolatedQueues}

NextIsolation ==
    \/ \E rq \in IsolatedSends : SendMessage(rq)
    \/ \E rq \in IsolatedReceives : ReceiveMessages(rq)
    \/ \E rq \in IsolatedPeeks : PeekMessages(rq)
    \/ \E rq \in {ReceiveCall(P, A, None)} : Refuse(rq)

SpecIsolation == Init /\ [][NextIsolation]_vars

\* C28: queue isolation.  Every message that peek_messages(p, a) or
\* receive_messages(p, a) returns is a pending message that was sent with
\* exactly project_id = p and to_agent = a: not one of the same agent under
\* another project, of another agent under the same project, or of a project
\* id that differs in whitespace.  receive_messages(p, a) leaves the pending
\* messages of every other queue as they were, and peek_messages and a failed
\* receive_messages leave all of them.
C28_QueueIsolation ==
    [][Completes({"peek_messages", "receive_messages"}) =>
        LET p == last'.call.project_id
            a == last'.call.agent_id
            others == {m \in messages : m.project_id # p \/ m.to_agent # a}
        IN  /\ IsOk(last'.res) =>
                  \A i \in 1..Len(last'.res.val) :
                      \E m \in messages \ others : Message(m) = last'.res.val[i]
            /\ others = {m \in messages' : m.project_id # p \/ m.to_agent # a}
            /\ (last'.call.op = "peek_messages" \/ IsErr(last'.res)) =>
                  messages' = messages]_vars

\* C28 witness: a receive_messages call returned the one message of its queue
\* while a message of the same agent under another project and a message of
\* another agent under the same project stay pending
C28_Witness ==
    /\ last.call.op = "receive_messages" /\ IsOk(last.res) /\ Len(last.res.val) = 1
    /\ \E m, o \in messages :
          /\ m.to_agent = last.call.agent_id /\ m.project_id # last.call.project_id
          /\ o.project_id = last.call.project_id /\ o.to_agent # last.call.agent_id

====
